---- MODULE Spec2Model ----
(***************************************************************************)
(* Groq Model Comparison Lab (groq_playground.py): a Streamlit script that *)
(* sends one prompt to two selected models, one call after the other, and  *)
(* renders both results with metrics and a comparative summary.            *)
(*                                                                         *)
(* Text is a sequence of one-character strings.  Durations are integers    *)
(* counted in clock ticks; 0 stands for the float 0.0.  A float quotient   *)
(* a / b is kept as the fraction [num |-> a, den |-> b].                    *)
(***************************************************************************)
EXTENDS Integers, Sequences, FiniteSets, TLC

\* Largest reading of time.time() (in ticks) the model draws.
MaxClock == 2
\* Largest number of fragments an input text of clean_response is built of.
MaxPieces == 5
\* How many entries of AVAILABLE_MODELS the model selects from.
NumModels == 2

VARIABLES
    env_key,            \* os.getenv("GROQ_API_KEY"), "" when absent
    key_input,          \* value of the sidebar password input
    model_1, model_2,   \* the two selectboxes
    temperature,        \* slider value, in tenths
    length_option,      \* "Short" | "Medium" | "Long"
    custom_max_tokens,  \* value of the number_input "Max Tokens (override)"
    user_prompt,        \* value of the text area
    pc,                 \* position of the script run
    button,             \* st.button("Run Prompt") of the current run
    output_1, time_1, ok_1,   \* result of the first call_groq (ok: endpoint answered 200, well formed)
    output_2, time_2, ok_2,   \* result of the second call_groq
    posts,              \* requests.post calls of the current run, in order
    error_shown,        \* st.error of the missing key
    warning_shown,      \* st.warning of the blank prompt
    col1, col2,         \* what the two columns show
    summary,            \* what the comparison summary shows
    cr_text, cr_out, cr_done,                 \* clean_response applied to a text
    cg_resp, cg_start, cg_end, cg_out, cg_done  \* call_groq applied to an endpoint answer

uiVars == <<env_key, key_input, model_1, model_2, temperature, length_option,
            custom_max_tokens, user_prompt, pc, button, output_1, time_1, ok_1,
            output_2, time_2, ok_2, posts, error_shown, warning_shown,
            col1, col2, summary>>
crVars == <<cr_text, cr_out, cr_done>>
cgVars == <<cg_resp, cg_start, cg_end, cg_out, cg_done>>
vars == <<uiVars, crVars, cgVars>>

-----------------------------------------------------------------------------
(* Text helpers: the str methods the script uses.                          *)

\* Characters str.strip() and str.split() treat as whitespace.
Whitespace == {" ", "\n", "\t"}

Abs(x) == IF x < 0 THEN -x ELSE x
Max2(a, b) == IF a >= b THEN a ELSE b
Min2(a, b) == IF a <= b THEN a ELSE b
MinOf(S) == CHOOSE x \in S : \A y \in S : x <= y
MaxOf(S) == CHOOSE x \in S : \A y \in S : x >= y

\* text[i:].startswith(m), i counted from 1
StartsAt(text, i, m) ==
    /\ i + Len(m) - 1 <= Len(text)
    /\ \A k \in 1..Len(m) : text[i + k - 1] = m[k]

startswith(text, m) == StartsAt(text, 1, m)

\* str.strip()
strip(text) ==
    LET solid == {i \in 1..Len(text) : text[i] \notin Whitespace}
    IN  IF solid = {} THEN <<>> ELSE SubSeq(text, MinOf(solid), MaxOf(solid))

\* len(text.split()): the number of maximal runs of non-whitespace
split_len(text) ==
    Cardinality({i \in 1..Len(text) :
                    /\ text[i] \notin Whitespace
                    /\ (i = 1 \/ text[i - 1] \in Whitespace)})

ThinkOpen == <<"<", "t", "h", "i", "n", "k", ">">>
ThinkClose == <<"<", "/", "t", "h", "i", "n", "k", ">">>
ErrorMarker == <<"E", "r", "r", "o", "r">>

-----------------------------------------------------------------------------
(* clean_response: re.sub(r"<think>.*?</think>", "", text, DOTALL).strip()   *)

\* The search for the closing marker when "." does not match a newline
\* (re.DOTALL left out).
FindCloseNoDotAll(text, i) ==
    LET at == {j \in i..Len(text) :
                  /\ StartsAt(text, j, ThinkClose)
                  /\ \A k \in i..(j - 1) : text[k] # "\n"}
    IN  IF at = {} THEN 0 ELSE MinOf(at)

\* Position of the first "</think>" at or after i, 0 when there is none.
\* With DOTALL "." matches every character, so ".*?" stops at the nearest one.
FindClose(text, i) ==
    LET at == {j \in i..Len(text) : StartsAt(text, j, ThinkClose)}
    IN  IF at = {} THEN 0 ELSE MinOf(at)

\* Where the match of "<think>.*?</think>" starting at i ends (the position
\* after it), 0 when no match starts at i.
MatchEnd(text, i) ==
    IF StartsAt(text, i, ThinkOpen)
    THEN LET c == FindClose(text, i + Len(ThinkOpen))
         IN  IF c = 0 THEN 0 ELSE c + Len(ThinkClose)
    ELSE 0

\* re.sub scans left to right from i; cur is the stretch of text kept since
\* the last match.  The result is the sequence of kept stretches, which
\* re.sub joins with the (empty) replacement.
RECURSIVE KeptFrom(_, _, _)
KeptFrom(text, i, cur) ==
    IF i > Len(text) THEN <<cur>>
    ELSE IF MatchEnd(text, i) # 0
         THEN <<cur>> \o KeptFrom(text, MatchEnd(text, i), <<>>)
         ELSE KeptFrom(text, i + 1, Append(cur, text[i]))

Kept(text) == KeptFrom(text, 1, <<>>)

RECURSIVE Join(_)
Join(chunks) == IF chunks = <<>> THEN <<>> ELSE Head(chunks) \o Join(Tail(chunks))

re_sub(text) == Join(Kept(text))

clean_response(text) == strip(re_sub(text))

-----------------------------------------------------------------------------
(* The endpoint's answers and call_groq.                                   *)

T_down == <<"d", "o", "w", "n">>
T_badjson == <<"b", "a", "d", " ", "j", "s", "o", "n">>
T_index == <<"n", "o", " ", "c", "h", "o", "i", "c", "e">>
T_type == <<"n", "o", "t", " ", "s", "t", "r">>
T_body == <<"n", "o", "p", "e">>

NoAnswer == [kind |-> "raise", exc |-> <<>>, status_code |-> 0, text |-> <<>>,
             json_ok |-> FALSE, n_choices |-> 0, content_is_str |-> FALSE,
             content |-> <<>>]

\* requests.post raises (no response at all)
Raises(msg) == [NoAnswer EXCEPT !.exc = msg]
\* a response with the given status and raw body
Status(code, body) == [NoAnswer EXCEPT !.kind = "response", !.status_code = code, !.text = body]
\* status 200, body is not JSON: resp.json() raises
NotJson == [Status(200, T_body) EXCEPT !.exc = T_badjson]
\* status 200, JSON with an empty "choices": data["choices"][0] raises
NoChoices == [Status(200, <<>>) EXCEPT !.json_ok = TRUE, !.exc = T_index]
\* status 200, first choice's content is null: re.sub raises
NullContent == [Status(200, <<>>) EXCEPT !.json_ok = TRUE, !.n_choices = 1, !.exc = T_type]
\* status 200, well-formed body with the given content
Completion(content) == [Status(200, <<>>) EXCEPT !.json_ok = TRUE, !.n_choices = 1,
                                               !.content_is_str = TRUE, !.content = content]

Contents ==
    { <<"H", "i", " ", "y", "o">>,
      <<"<", "t", "h", "i", "n", "k", ">", "x", "\n", "<", "/", "t", "h", "i", "n", "k", ">", " ">>,
      <<"E", "r", "r", "o", "r", "s", " ", "o", "k">> }

Responses ==
    { Raises(T_down), Status(404, T_body), NotJson, NoChoices, NullContent }
    \cup { Completion(c) : c \in Contents }

Clock == 0..MaxClock

DigitChar == <<"0", "1", "2", "3", "4", "5", "6", "7", "8", "9">>
\* str() of a three-digit status code
StatusStr(n) == << DigitChar[(n \div 100) + 1], DigitChar[((n \div 10) % 10) + 1], DigitChar[(n % 10) + 1] >>

\* f"Error: {e}"
ErrorText(msg) == ErrorMarker \o <<":", " ">> \o msg

\* call_groq that returns the content as received
call_groq_unclean(resp, start_time, end_time) ==
    IF resp.kind = "raise" THEN [text |-> ErrorText(resp.exc), time |-> 0]
    ELSE IF resp.status_code # 200
         THEN [text |-> ErrorText(StatusStr(resp.status_code) \o <<" ", "-", " ">> \o resp.text), time |-> 0]
         ELSE IF ~resp.json_ok \/ resp.n_choices = 0 \/ ~resp.content_is_str
              THEN [text |-> ErrorText(resp.exc), time |-> 0]
              ELSE [text |-> resp.content, time |-> end_time - start_time]

\* call_groq that keeps the measured duration on a failure
call_groq_timed(resp, start_time, end_time) ==
    IF resp.kind = "raise" THEN [text |-> ErrorText(resp.exc), time |-> 0]
    ELSE IF resp.status_code # 200
         THEN [text |-> ErrorText(StatusStr(resp.status_code) \o <<" ", "-", " ">> \o resp.text),
               time |-> end_time - start_time]
         ELSE IF ~resp.json_ok \/ resp.n_choices = 0 \/ ~resp.content_is_str
              THEN [text |-> ErrorText(resp.exc), time |-> end_time - start_time]
              ELSE [text |-> clean_response(resp.content), time |-> end_time - start_time]

\* call_groq(prompt, model, temperature, max_tokens): resp is what requests.post
\* does, start_time and end_time the two readings of time.time().
call_groq(resp, start_time, end_time) ==
    IF resp.kind = "raise"
    THEN [text |-> ErrorText(resp.exc), time |-> 0]                  \* except Exception
    ELSE LET time_taken == end_time - start_time
         IN  IF resp.status_code # 200
             THEN [text |-> ErrorText(StatusStr(resp.status_code) \o <<" ", "-", " ">> \o resp.text),
                   time |-> 0]
             ELSE IF ~resp.json_ok                                   \* resp.json() raises
                  THEN [text |-> ErrorText(resp.exc), time |-> 0]
             ELSE IF resp.n_choices = 0                              \* data["choices"][0] raises
                  THEN [text |-> ErrorText(resp.exc), time |-> 0]
             ELSE IF ~resp.content_is_str                            \* re.sub raises
                  THEN [text |-> ErrorText(resp.exc), time |-> 0]
             ELSE [text |-> clean_response(resp.content), time |-> time_taken]

\* The endpoint answered 200 with a body of the expected shape.
WellFormed200(resp) ==
    /\ resp.kind = "response" /\ resp.status_code = 200
    /\ resp.json_ok /\ resp.n_choices > 0 /\ resp.content_is_str

-----------------------------------------------------------------------------
(* The widgets and the values the script derives from them.                *)

AVAILABLE_MODELS == << "llama-3.1-8b-instant", "gemma2-9b-it", "qwen/qwen3-32b",
                       "openai/gpt-oss-20b", "openai/gpt-oss-120b" >>
\* The selectboxes offer the first NumModels entries.
Models == {AVAILABLE_MODELS[i] : i \in 1..Min2(NumModels, Len(AVAILABLE_MODELS))}

length_map == [Short |-> 150, Medium |-> 400, Long |-> 800]
LengthOptions == DOMAIN length_map

\* Values drawn for the inputs of the widgets.
EnvKeys == {"", "gsk_env"}
TypedKeys == {"", "gsk_typed"}
Temperatures == {7, 15}
Overrides == {50}
Prompts == { <<>>, <<" ", "\n">>, <<" ", "S", "a", "y", " ", "h", "i">> }

\* api_key after lines 24-27: the environment's key, else the sidebar input
api_key == IF env_key # "" THEN env_key ELSE key_input

\* "not api_key" that never holds (the key check left out)
MissingKeyNever(key) == FALSE

\* "not api_key" of line 29
MissingKey(key) == key = ""

\* max_tokens after lines 122-135
max_tokens ==
    IF custom_max_tokens # length_map[length_option]
    THEN custom_max_tokens
    ELSE length_map[length_option]

\* A blank check that does not strip
IsBlankUnstripped(prompt) == prompt = <<>>

\* user_prompt.strip() == ""
IsBlank(prompt) == strip(prompt) = <<>>

\* headers and payload of the POST (lines 48-69)
Request(prompt, model, temp, tokens) ==
    [ Authorization |-> api_key, model |-> model, content |-> prompt,
      temperature |-> temp, max_tokens |-> tokens ]

-----------------------------------------------------------------------------
(* Rendering.                                                              *)

Div(a, b) == [num |-> a, den |-> b]

HiddenColumn ==
    [ shown |-> FALSE, subheader |-> "", info_temperature |-> 0, info_max_tokens |-> 0,
      text |-> <<>>, has_metrics |-> FALSE, response_time |-> 0, word_count |-> 0,
      has_speed |-> FALSE, speed |-> Div(0, 1) ]

\* A column whose speed is the time per word
ColumnInverseSpeed(model, temp, tokens, output, time) ==
    LET metrics == output # <<>> /\ ~startswith(output, ErrorMarker)
        word_count == split_len(output)
    IN  [ shown |-> TRUE, subheader |-> model, info_temperature |-> temp,
          info_max_tokens |-> tokens, text |-> output, has_metrics |-> metrics,
          response_time |-> IF metrics THEN time ELSE 0,
          word_count |-> IF metrics THEN word_count ELSE 0,
          has_speed |-> metrics /\ time > 0,
          speed |-> IF metrics /\ time > 0 THEN Div(time, word_count) ELSE Div(0, 1) ]

\* "with col1:" / "with col2:" (lines 168-177, 179-188)
Column(model, temp, tokens, output, time) ==
    LET metrics == output # <<>> /\ ~startswith(output, ErrorMarker)
        word_count == split_len(output)
    IN  [ shown |-> TRUE, subheader |-> model, info_temperature |-> temp,
          info_max_tokens |-> tokens, text |-> output, has_metrics |-> metrics,
          response_time |-> IF metrics THEN time ELSE 0,
          word_count |-> IF metrics THEN word_count ELSE 0,
          has_speed |-> metrics /\ time > 0,
          speed |-> IF metrics /\ time > 0 THEN Div(word_count, time) ELSE Div(0, 1) ]

NoSummary == [ shown |-> FALSE, faster_model |-> "", speed_diff |-> 0, speed_ratio |-> Div(0, 1) ]

\* The faster model chosen with "<=": a tie names the first model
faster_model_tie_first(m1, m2, t1, t2) == IF t1 <= t2 THEN m1 ELSE m2

\* faster_model of line 193
faster_model(m1, m2, t1, t2) == IF t1 < t2 THEN m1 ELSE m2

\* A summary shown whenever the first duration is positive
SummaryFirstOnly(m1, m2, t1, t2) ==
    IF t1 > 0
    THEN [ shown |-> TRUE, faster_model |-> faster_model(m1, m2, t1, t2),
           speed_diff |-> Abs(t1 - t2),
           speed_ratio |-> IF Min2(t1, t2) > 0 THEN Div(Max2(t1, t2), Min2(t1, t2)) ELSE Div(0, 1) ]
    ELSE NoSummary

\* Comparison summary (lines 191-196)
Summary(m1, m2, t1, t2) ==
    IF t1 > 0 /\ t2 > 0
    THEN [ shown |-> TRUE, faster_model |-> faster_model(m1, m2, t1, t2),
           speed_diff |-> Abs(t1 - t2),
           speed_ratio |-> Div(Max2(t1, t2), Min2(t1, t2)) ]
    ELSE NoSummary

-----------------------------------------------------------------------------
(* The script.  Streamlit runs it from the top on every interaction; the   *)
(* results of a run are on the page until the next run starts.             *)

\* What a run starts from: nothing of the previous run is left.
FreshRun ==
    /\ output_1' = <<>> /\ time_1' = 0 /\ ok_1' = FALSE
    /\ output_2' = <<>> /\ time_2' = 0 /\ ok_2' = FALSE
    /\ posts' = <<>>
    /\ col1' = HiddenColumn /\ col2' = HiddenColumn /\ summary' = NoSummary

\* A run the button did not start (lines 24-31, then to the end with
\* st.button returning False).  The widgets' new values are already set.
RunScript ==
    /\ button' = FALSE
    /\ warning_shown' = FALSE
    /\ FreshRun
    /\ IF MissingKey(api_key')
       THEN pc' = "stopped" /\ error_shown' = TRUE      \* st.error; st.stop()
       ELSE pc' = "idle" /\ error_shown' = FALSE

\* The sidebar input exists only when the environment has no key (line 25);
\* it is on the page whether or not the run went past st.stop().
EnterKey(k) ==
    /\ pc \in {"idle", "stopped"}
    /\ env_key = ""
    /\ k # key_input
    /\ key_input' = k
    /\ UNCHANGED <<env_key, model_1, model_2, temperature, length_option,
                   custom_max_tokens, user_prompt>>
    /\ RunScript

SelectModel1(m) ==
    /\ pc = "idle" /\ m # model_1
    /\ model_1' = m
    /\ UNCHANGED <<env_key, key_input, model_2, temperature, length_option,
                   custom_max_tokens, user_prompt>>
    /\ RunScript

SelectModel2(m) ==
    /\ pc = "idle" /\ m # model_2
    /\ model_2' = m
    /\ UNCHANGED <<env_key, key_input, model_1, temperature, length_option,
                   custom_max_tokens, user_prompt>>
    /\ RunScript

SetTemperature(t) ==
    /\ pc = "idle" /\ t # temperature
    /\ temperature' = t
    /\ UNCHANGED <<env_key, key_input, model_1, model_2, length_option,
                   custom_max_tokens, user_prompt>>
    /\ RunScript

\* A new length gives the number_input a new default (value=max_tokens).
SetLength(l) ==
    /\ pc = "idle" /\ l # length_option
    /\ length_option' = l
    /\ custom_max_tokens' = length_map[l]
    /\ UNCHANGED <<env_key, key_input, model_1, model_2, temperature, user_prompt>>
    /\ RunScript

SetMaxTokens(v) ==
    /\ pc = "idle" /\ v # custom_max_tokens
    /\ custom_max_tokens' = v
    /\ UNCHANGED <<env_key, key_input, model_1, model_2, temperature,
                   length_option, user_prompt>>
    /\ RunScript

SetPrompt(p) ==
    /\ pc = "idle" /\ p # user_prompt
    /\ user_prompt' = p
    /\ UNCHANGED <<env_key, key_input, model_1, model_2, temperature,
                   length_option, custom_max_tokens>>
    /\ RunScript

widgets == <<env_key, key_input, model_1, model_2, temperature, length_option,
             custom_max_tokens, user_prompt>>

\* "Run Prompt" pressed: the run from the top up to the first call_groq.
PressRun ==
    /\ pc = "idle"
    /\ button' = TRUE
    /\ UNCHANGED widgets
    /\ FreshRun
    /\ IF MissingKey(api_key)
       THEN pc' = "stopped" /\ error_shown' = TRUE /\ warning_shown' = FALSE
       ELSE /\ error_shown' = FALSE
            /\ IF IsBlank(user_prompt)
               THEN warning_shown' = TRUE /\ pc' = "idle"
               ELSE warning_shown' = FALSE /\ pc' = "call1"

\* The second call left out when the first one failed
Call2SkippedOnError ==
    /\ pc = "call2"
    /\ \E resp \in Responses, start_time \in Clock, end_time \in Clock :
          LET r == call_groq(resp, start_time, end_time)
          IN  IF startswith(output_1, ErrorMarker)
              THEN output_2' = output_1 /\ time_2' = 0 /\ ok_2' = FALSE /\ posts' = posts
              ELSE /\ output_2' = r.text /\ time_2' = r.time /\ ok_2' = WellFormed200(resp)
                   /\ posts' = Append(posts, Request(user_prompt, model_2, temperature, max_tokens))
    /\ pc' = "render"
    /\ UNCHANGED <<widgets, button, output_1, time_1, ok_1, error_shown, warning_shown,
                   col1, col2, summary>>

\* output_1, time_1 = call_groq(user_prompt, model_1, ...) (lines 152-157)
Call1 ==
    /\ pc = "call1"
    /\ \E resp \in Responses, start_time \in Clock, end_time \in Clock :
          LET r == call_groq(resp, start_time, end_time)
          IN  /\ output_1' = r.text /\ time_1' = r.time /\ ok_1' = WellFormed200(resp)
              /\ posts' = Append(posts, Request(user_prompt, model_1, temperature, max_tokens))
    /\ pc' = "call2"
    /\ UNCHANGED <<widgets, button, output_2, time_2, ok_2, error_shown, warning_shown,
                   col1, col2, summary>>

\* output_2, time_2 = call_groq(user_prompt, model_2, ...) (lines 158-163)
Call2 ==
    /\ pc = "call2"
    /\ \E resp \in Responses, start_time \in Clock, end_time \in Clock :
          LET r == call_groq(resp, start_time, end_time)
          IN  /\ output_2' = r.text /\ time_2' = r.time /\ ok_2' = WellFormed200(resp)
              /\ posts' = Append(posts, Request(user_prompt, model_2, temperature, max_tokens))
    /\ pc' = "render"
    /\ UNCHANGED <<widgets, button, output_1, time_1, ok_1, error_shown, warning_shown,
                   col1, col2, summary>>

\* A rendering that gives up the second column when the first call failed
RenderFirstErrorOnly ==
    /\ pc = "render"
    /\ col1' = Column(model_1, temperature, max_tokens, output_1, time_1)
    /\ col2' = IF startswith(output_1, ErrorMarker)
               THEN HiddenColumn
               ELSE Column(model_2, temperature, max_tokens, output_2, time_2)
    /\ summary' = Summary(model_1, model_2, time_1, time_2)
    /\ pc' = "idle"
    /\ UNCHANGED <<widgets, button, output_1, time_1, ok_1, output_2, time_2, ok_2,
                   posts, error_shown, warning_shown>>

\* The two columns and the summary (lines 165-196), then the run ends.
Render ==
    /\ pc = "render"
    /\ col1' = Column(model_1, temperature, max_tokens, output_1, time_1)
    /\ col2' = Column(model_2, temperature, max_tokens, output_2, time_2)
    /\ summary' = Summary(model_1, model_2, time_1, time_2)
    /\ pc' = "idle"
    /\ UNCHANGED <<widgets, button, output_1, time_1, ok_1, output_2, time_2, ok_2,
                   posts, error_shown, warning_shown>>

-----------------------------------------------------------------------------
(* Specifications.                                                         *)

CrIdle == cr_text = <<>> /\ cr_out = <<>> /\ cr_done = FALSE
CgIdle == cg_resp = NoAnswer /\ cg_start = 0 /\ cg_end = 0
          /\ cg_out = [text |-> <<>>, time |-> 0] /\ cg_done = FALSE

\* The page after the first run of the script.
UiInit ==
    /\ env_key \in EnvKeys
    /\ key_input = ""
    /\ model_1 = AVAILABLE_MODELS[1] /\ model_2 = AVAILABLE_MODELS[2]
    /\ temperature = 7
    /\ length_option = "Medium" /\ custom_max_tokens = length_map["Medium"]
    /\ user_prompt = <<>>
    /\ button = FALSE
    /\ output_1 = <<>> /\ time_1 = 0 /\ ok_1 = FALSE
    /\ output_2 = <<>> /\ time_2 = 0 /\ ok_2 = FALSE
    /\ posts = <<>>
    /\ warning_shown = FALSE
    /\ col1 = HiddenColumn /\ col2 = HiddenColumn /\ summary = NoSummary
    /\ IF MissingKey(api_key)
       THEN pc = "stopped" /\ error_shown = TRUE
       ELSE pc = "idle" /\ error_shown = FALSE

Init == UiInit /\ CrIdle /\ CgIdle

Next ==
    \/ \E k \in TypedKeys : EnterKey(k) /\ UNCHANGED <<crVars, cgVars>>
    \/ \E m \in Models : SelectModel1(m) /\ UNCHANGED <<crVars, cgVars>>
    \/ \E m \in Models : SelectModel2(m) /\ UNCHANGED <<crVars, cgVars>>
    \/ \E t \in Temperatures : SetTemperature(t) /\ UNCHANGED <<crVars, cgVars>>
    \/ \E l \in LengthOptions : SetLength(l) /\ UNCHANGED <<crVars, cgVars>>
    \/ \E v \in Overrides \cup {length_map[length_option]} : SetMaxTokens(v) /\ UNCHANGED <<crVars, cgVars>>
    \/ \E p \in Prompts : SetPrompt(p) /\ UNCHANGED <<crVars, cgVars>>
    \/ PressRun /\ UNCHANGED <<crVars, cgVars>>
    \/ Call1 /\ UNCHANGED <<crVars, cgVars>>
    \/ Call2 /\ UNCHANGED <<crVars, cgVars>>
    \/ Render /\ UNCHANGED <<crVars, cgVars>>

Spec == Init /\ [][Next]_vars

-----------------------------------------------------------------------------
(* clean_response on its own: every text built of at most MaxPieces        *)
(* fragments, among them the markers and the two halves of a split marker. *)

Pieces == { ThinkOpen, ThinkClose, <<"<", "t", "h", "i">>, <<"n", "k", ">">>, <<"a">>, <<"\n">> }

Texts == { Join(ps) : ps \in UNION { [1..n -> Pieces] : n \in 0..MaxPieces } }

UiQuiet == UiInit /\ env_key = ""

InitClean == UiQuiet /\ CgIdle /\ cr_text \in Texts /\ cr_out = <<>> /\ cr_done = FALSE

Clean ==
    /\ ~cr_done
    /\ cr_out' = clean_response(cr_text)
    /\ cr_done' = TRUE
    /\ UNCHANGED <<cr_text, uiVars, cgVars>>

NextClean == Clean

SpecClean == InitClean /\ [][NextClean]_vars

(* call_groq on its own: every answer of the endpoint with every pair of   *)
(* clock readings.                                                         *)

InitInvoker ==
    /\ UiInit /\ CrIdle
    /\ cg_resp \in Responses /\ cg_start \in Clock /\ cg_end \in Clock
    /\ cg_out = [text |-> <<>>, time |-> 0] /\ cg_done = FALSE

Invoke ==
    /\ ~cg_done
    /\ cg_out' = call_groq(cg_resp, cg_start, cg_end)
    /\ cg_done' = TRUE
    /\ UNCHANGED <<cg_resp, cg_start, cg_end, uiVars, crVars>>

NextInvoker == Invoke

SpecInvoker == InitInvoker /\ [][NextInvoker]_vars

-----------------------------------------------------------------------------
(* Properties.                                                             *)

\* The results of a run the button started are on the page.
Displayed == button /\ pc = "idle" /\ ~warning_shown /\ ~error_shown

NothingRendered == ~col1.shown /\ ~col2.shown /\ ~summary.shown

AllWhitespace(text) == \A i \in 1..Len(text) : text[i] \in Whitespace

\* An opening marker followed, after it, by a closing marker.
HasSegment(text) ==
    \E i \in 1..Len(text) : \E j \in (i + Len(ThinkOpen))..Len(text) :
        StartsAt(text, i, ThinkOpen) /\ StartsAt(text, j, ThinkClose)

\* C1: no request is ever posted with an empty key; while the key is empty
\* the run has halted with the error on the page and nothing else rendered.
C1_NoRequestWithoutKey ==
    /\ \A i \in 1..Len(posts) : posts[i].Authorization # ""
    /\ api_key = "" => /\ pc = "stopped" /\ error_shown
                       /\ posts = <<>> /\ NothingRendered /\ ~warning_shown

C1_Witness == pc = "stopped" /\ error_shown /\ api_key = "" /\ env_key = ""

\* C2: a run started by the button with an empty or whitespace-only prompt
\* posts nothing, shows the warning and renders no column and no summary.
C2_BlankPrompt ==
    (button /\ AllWhitespace(user_prompt)) =>
        /\ warning_shown /\ pc = "idle"
        /\ posts = <<>> /\ NothingRendered

C2_Witness == button /\ warning_shown /\ user_prompt # <<>> /\ AllWhitespace(user_prompt)

\* C3: a run started by the button with a non-blank prompt posts exactly two
\* requests, for model_1 then model_2, the second after the first returned
\* whatever it returned, both with the same prompt, temperature and
\* max_tokens; nothing is rendered before both have returned.
C3_TwoSequentialCalls ==
    LET first == [ Authorization |-> api_key, model |-> model_1, content |-> user_prompt,
                   temperature |-> temperature, max_tokens |-> max_tokens ]
        second == [first EXCEPT !.model = model_2]
    IN  /\ Len(posts) <= 2
        /\ pc = "call1" => posts = <<>> /\ NothingRendered
        /\ pc = "call2" => posts = <<first>> /\ NothingRendered
        /\ pc = "render" => posts = <<first, second>> /\ NothingRendered
        /\ (button /\ pc = "idle" /\ ~AllWhitespace(user_prompt)) =>
               posts = <<first, second>> /\ col1.shown /\ col2.shown

C3_Witness ==
    /\ Displayed /\ col1.shown /\ col2.shown /\ Len(posts) = 2
    /\ ~ok_1 /\ startswith(output_1, ErrorMarker) /\ ok_2

\* C4: a call that fails (post raises, status is not 200, the body is not
\* of the expected shape) returns text beginning with "Error" and the
\* duration 0.0, also when the two clock readings were already taken.
C4_FailureIsErrorAndZero ==
    (cg_done /\ ~WellFormed200(cg_resp)) =>
        /\ startswith(cg_out.text, ErrorMarker)
        /\ cg_out.time = 0

C4_Witness ==
    /\ cg_done /\ cg_resp = NullContent /\ cg_end > cg_start
    /\ startswith(cg_out.text, ErrorMarker)

\* C5 as stated: a 200 with a well-formed body returns the sanitized content
\* and a duration strictly greater than zero, whatever the clock readings.
C5_Original ==
    (cg_done /\ WellFormed200(cg_resp)) =>
        /\ cg_out.text = clean_response(cg_resp.content)
        /\ cg_out.time > 0

\* C5 amended: a 200 with a well-formed body returns the sanitized content
\* and the difference of the two clock readings, which is greater than zero
\* exactly when the second reading is later than the first.
C5_SuccessResult ==
    (cg_done /\ WellFormed200(cg_resp)) =>
        /\ cg_out.text = strip(re_sub(cg_resp.content))
        /\ cg_out.time = cg_end - cg_start
        /\ cg_out.time > 0 <=> cg_end > cg_start

C5_Witness ==
    /\ cg_done /\ WellFormed200(cg_resp) /\ cg_end > cg_start
    /\ HasSegment(cg_resp.content) /\ cg_out.time > 0

\* C6 as stated: the summary is rendered when both calls succeeded.
C6_Original == (Displayed /\ ok_1 /\ ok_2) => summary.shown

\* C6 amended: after a non-blank submission the summary is rendered exactly
\* when both durations are > 0, which needs both calls to have succeeded;
\* when rendered, the ratio is max(T1,T2)/min(T1,T2), it is >= 1, and the
\* difference is |T1 - T2|.
C6_Summary ==
    LET hi == IF time_1 >= time_2 THEN time_1 ELSE time_2
        lo == IF time_1 >= time_2 THEN time_2 ELSE time_1
    IN  /\ Displayed => (summary.shown <=> (time_1 > 0 /\ time_2 > 0))
        /\ summary.shown =>
              /\ Displayed /\ ok_1 /\ ok_2
              /\ summary.speed_ratio.den > 0
              /\ summary.speed_ratio.num * lo = summary.speed_ratio.den * hi
              /\ summary.speed_ratio.num >= summary.speed_ratio.den
              /\ summary.speed_diff = hi - lo

C6_Witness == Displayed /\ summary.shown /\ time_1 # time_2 /\ summary.speed_diff > 0

\* C7 as stated: on equal durations the summary names the first model.
C7_Original == (summary.shown /\ time_1 = time_2) => summary.faster_model = model_1

\* C7 amended: the summary names the model with the strictly smaller
\* duration; on equal durations it names the second model (model_2).
C7_FasterModel ==
    summary.shown =>
        /\ time_1 < time_2 => summary.faster_model = model_1
        /\ time_2 < time_1 => summary.faster_model = model_2
        /\ time_1 = time_2 => summary.faster_model = model_2

C7_Witness == summary.shown /\ time_1 = time_2 /\ model_1 # model_2

\* C8: the page is rendered whatever failed; a column whose call failed
\* shows the error text and no metrics; each column is what its own
\* call's result alone makes it, whatever the other call returned.
C8_FailureScopedToColumn ==
    Displayed =>
        /\ col1.shown /\ col2.shown
        /\ ~ok_1 => /\ col1.text = output_1 /\ startswith(col1.text, ErrorMarker)
                    /\ ~col1.has_metrics /\ ~col1.has_speed
        /\ ~ok_2 => /\ col2.text = output_2 /\ startswith(col2.text, ErrorMarker)
                    /\ ~col2.has_metrics /\ ~col2.has_speed
        /\ col1 = Column(model_1, temperature, max_tokens, output_1, time_1)
        /\ col2 = Column(model_2, temperature, max_tokens, output_2, time_2)

C8_Witness ==
    /\ Displayed /\ ~ok_1 /\ ok_2
    /\ startswith(col1.text, ErrorMarker) /\ ~col1.has_metrics
    /\ col2.has_metrics /\ col2.has_speed

\* C9 as stated: a column shows the metrics, speed included, if and only if
\* its call succeeded.
C9_Original ==
    Displayed =>
        /\ ok_1 <=> (col1.has_metrics /\ col1.has_speed)
        /\ ok_2 <=> (col2.has_metrics /\ col2.has_speed)

ColumnMetrics(col, output, time, ok) ==
    /\ col.has_metrics <=> (output # <<>> /\ ~startswith(output, ErrorMarker))
    /\ col.has_metrics => /\ ok
                          /\ col.response_time = time
                          /\ col.word_count = split_len(output)
    /\ col.has_speed <=> (col.has_metrics /\ time > 0)
    /\ col.has_speed => /\ col.speed.den > 0
                        /\ col.speed.num * time = col.speed.den * split_len(output)

\* C9 amended: a column shows the response time and the word count N exactly
\* when its text is not empty and does not begin with "Error", which happens
\* only after a call that succeeded; it shows the speed N / T exactly when,
\* in addition, T > 0.
C9_Metrics ==
    Displayed =>
        /\ ColumnMetrics(col1, output_1, time_1, ok_1)
        /\ ColumnMetrics(col2, output_2, time_2, ok_2)

C9_Witness ==
    /\ Displayed /\ ok_1 /\ col1.has_metrics /\ col1.has_speed
    /\ col1.word_count = 2 /\ time_1 = 2

\* C10 as stated: the output contains no well-formed segment.
C10_Original == cr_done => ~HasSegment(cr_out)

\* C10 amended: every stretch of the input that clean_response keeps is
\* free of well-formed segments (the output as a whole need not be: two
\* kept stretches may join into one); the output has no surrounding
\* whitespace; a text without segments comes back trimmed and otherwise
\* unchanged.
C10_Sanitizer ==
    cr_done =>
        /\ \A k \in 1..Len(Kept(cr_text)) : ~HasSegment(Kept(cr_text)[k])
        /\ cr_out # <<>> => cr_out[1] \notin Whitespace /\ cr_out[Len(cr_out)] \notin Whitespace
        /\ Len(cr_out) <= Len(cr_text)
        /\ ~HasSegment(cr_text) => cr_out = strip(cr_text)

C10_Witness ==
    /\ cr_done /\ HasSegment(cr_text) /\ Len(Kept(cr_text)) >= 3
    /\ cr_out # <<>> /\ ~HasSegment(cr_out)

====
